---------------------------- MODULE Spec2Model ----------------------------
(***************************************************************************)
(* A model of TEMP0RAL_CAPTCHA (src/main.go): the in-memory captchaStore   *)
(* guarded by a sync.RWMutex and the four gin handlers that create, render *)
(* and validate arithmetic challenges.                                     *)
(*                                                                         *)
(* Every request is served by its own goroutine; a handler slot h runs one *)
(* request at a time, one step per lock operation or map access, and is    *)
(* reused for the next request after it returns.                           *)
(*                                                                         *)
(* Texts (equations, submitted answers) are sequences of one-character     *)
(* strings, so that fmt.Sprintf and strconv.Atoi are computed and not      *)
(* assumed.  Random sources (crypto/rand, uuid.New) are nondeterministic   *)
(* choices over their outcomes.                                            *)
(***************************************************************************)
EXTENDS Integers, Sequences, FiniteSets, TLC

(***************************************************************************)
(* Bounds of the model.                                                    *)
(***************************************************************************)
\* handler goroutines running concurrently in Spec
NumHandlers == 2
\* concurrent /validate invocations racing for one token in SpecRace
NumRacers == 3
\* concurrent handlers in SpecFair
NumFairHandlers == 3
\* the largest rand.Int outcome enumerated for an operand in SpecGen
MaxDraw == 19
\* the largest randInt outcomes enumerated for the x and the y of an
\* endpoint in SpecLine
MaxX == 15
MaxY == 9

Handlers == 1..NumHandlers
Racers == 1..NumRacers

\* the uuid strings uuid.New().String() is taken to draw from
Tokens == {"u1", "u2"}
NoToken == ""

\* the "answer" form values clients submit
AnswerTexts ==
    { <<"8">>, <<"0">>, <<"+", "7">>, <<"s", "e", "v", "e", "n">> }

\* the outcomes of the three rand.Int calls of one generateEquation call
\* (operator index, first operand draw, second operand draw) used by Spec
Draws == { <<0, 2, 3>>, <<1, 0, 0>> }

(***************************************************************************)
(* Text conversions.                                                       *)
(***************************************************************************)
DigitChars == <<"0", "1", "2", "3", "4", "5", "6", "7", "8", "9">>

IsDigit(c) == \E i \in 1..10 : DigitChars[i] = c

DigitVal(c) == (CHOOSE i \in 1..10 : DigitChars[i] = c) - 1

RECURSIVE FormatNat(_)
FormatNat(n) ==
    IF n < 10 THEN <<DigitChars[n + 1]>>
    ELSE FormatNat(n \div 10) \o <<DigitChars[(n % 10) + 1]>>

\* the verb %d of fmt.Sprintf
FormatInt(n) == IF n < 0 THEN <<"-">> \o FormatNat(-n) ELSE FormatNat(n)

RECURSIVE ParseDigits(_, _)
\* the digit loop of strconv.Atoi: -1 stands for a syntax error
ParseDigits(s, n) ==
    IF s = <<>> THEN n
    ELSE IF ~IsDigit(Head(s)) THEN -1
    ELSE ParseDigits(Tail(s), n * 10 + DigitVal(Head(s)))

\* strconv.Atoi: an optional sign, then at least one decimal digit.
\* Returns the pair (value, err); the value is 0 when err is set.
Atoi(s) ==
    LET signed == s # <<>> /\ Head(s) \in {"+", "-"}
        digits == IF signed THEN Tail(s) ELSE s
        n == ParseDigits(digits, 0)
    IN  IF digits = <<>> \/ n < 0
        THEN [value |-> 0, err |-> TRUE]
        ELSE [value |-> IF signed /\ Head(s) = "-" THEN -n ELSE n,
              err |-> FALSE]

(***************************************************************************)
(* Challenge Generator.                                                    *)
(***************************************************************************)
ops == <<"+", "-", "*">>

\* the outcomes of rand.Int(rand.Reader, big.NewInt(max))
RandInt(max) == 0..(max - 1)

\* getRandomNumber(min, max) when rand.Int returned n
getRandomNumber(min, max, n) == n + min

\* the outcomes of the rand.Int call of getRandomNumber(min, max)
RangeDraws(min, max) == RandInt(max - min + 1)

\* calculateAnswer adding where it should multiply
calculateAnswerNoMul(a, b, op) ==
    CASE op = "+" -> a + b
      [] op = "-" -> a - b
      [] op = "*" -> a + b
      [] OTHER -> 0

calculateAnswer(a, b, op) ==
    CASE op = "+" -> a + b
      [] op = "-" -> a - b
      [] op = "*" -> a * b
      [] OTHER -> 0

\* the arguments (min, max) of the getRandomNumber call that draws the
\* first operand under op
ARange(op) == IF op = "-" THEN <<1, 20>> ELSE <<1, 10>>

\* the second operand of a subtraction drawn without regard to the first
BRangeIndependent(op, a) == IF op = "-" THEN <<1, 20>> ELSE <<1, 10>>

\* the arguments (min, max) of the getRandomNumber call that draws the
\* second operand under op, the first operand being a
BRange(op, a) == IF op = "-" THEN <<1, a>> ELSE <<1, 10>>

\* the operands generateEquation draws for op from the draws d[2], d[3]
OperandA(op, d) == getRandomNumber(ARange(op)[1], ARange(op)[2], d[2])

OperandB(op, a, d) == getRandomNumber(BRange(op, a)[1], BRange(op, a)[2], d[3])

\* d is a possible outcome of the rand.Int calls of generateEquation:
\* rand.Int(rand.Reader, max) returns a value in 0..max-1
ValidDraw(d) ==
    /\ d[1] \in RandInt(Len(ops))
    /\ LET op == ops[d[1] + 1]
           a == OperandA(op, d)
       IN  /\ d[2] \in RangeDraws(ARange(op)[1], ARange(op)[2])
           /\ d[3] \in RangeDraws(BRange(op, a)[1], BRange(op, a)[2])

\* every outcome of the rand.Int calls of generateEquation
AllDraws ==
    {d \in RandInt(Len(ops)) \X (0..MaxDraw) \X (0..MaxDraw) : ValidDraw(d)}

generateEquation(d) ==
    LET op == ops[d[1] + 1]
        a == OperandA(op, d)
        b == OperandB(op, a, d)
    IN  [equation |-> FormatInt(a) \o <<" ", op, " ">> \o FormatInt(b)
                        \o <<" ", "=", " ", "?">>,
         answer |-> calculateAnswer(a, b, op)]

\* the zero value of captchaEntry, which a map read of a missing key yields
\* (the field created is written at the insert and never read)
ZeroEntry == [equation |-> <<>>, answer |-> 0]


(***************************************************************************)
(* Responses.                                                              *)
(***************************************************************************)
\* what a handler wrote to its client: status, template or content type,
\* and the values handed to it
Resp(status, view, id, msg, text) ==
    [status |-> status, view |-> view, captchaID |-> id, error |-> msg,
     text |-> text]

NoResponse == Resp(0, "", NoToken, "", <<>>)

StatusOK == 200
StatusBadRequest == 400
StatusNotFound == 404

MsgExpired == "CAPTCHA expired or invalid"
MsgIncorrect == "Incorrect answer, please try again"

\* GET / renders index.html, GET /captcha/new answers JSON
CreateResponse(r, id) ==
    IF r = "/" THEN Resp(StatusOK, "index.html", id, "", <<>>)
    ELSE Resp(StatusOK, "json", id, "", <<"/captcha/image/", id>>)

\* the image handler without its check of exists
ImageResponseNoCheck(found, e) ==
    Resp(StatusOK, "image/png", NoToken, "", e.equation)

\* the text generateImage draws is the equation; the noise strokes it adds
\* do not depend on the store
ImageResponse(found, e) ==
    IF ~found THEN Resp(StatusNotFound, "", NoToken, "", <<>>)
    ELSE Resp(StatusOK, "image/png", NoToken, "", e.equation)

\* /validate comparing the value of Atoi without looking at its error
ValidateResponseNoErr(found, e, text) ==
    IF ~found THEN Resp(StatusBadRequest, "index.html", NoToken, MsgExpired, <<>>)
    ELSE IF Atoi(text).value # e.answer
         THEN Resp(StatusBadRequest, "index.html", NoToken, MsgIncorrect, <<>>)
         ELSE Resp(StatusOK, "success.html", NoToken, "", <<>>)

\* /validate parsing the text before it looks at exists
ValidateResponseParseFirst(found, e, text) ==
    IF Atoi(text).err
    THEN Resp(StatusBadRequest, "index.html", NoToken, MsgIncorrect, <<>>)
    ELSE IF ~found
         THEN Resp(StatusBadRequest, "index.html", NoToken, MsgExpired, <<>>)
         ELSE IF Atoi(text).value # e.answer
              THEN Resp(StatusBadRequest, "index.html", NoToken, MsgIncorrect, <<>>)
              ELSE Resp(StatusOK, "success.html", NoToken, "", <<>>)

\* /validate telling the expected answer when the answer given is wrong
ValidateResponseLeak(found, e, text) ==
    IF ~found THEN Resp(StatusBadRequest, "index.html", NoToken, MsgExpired, <<>>)
    ELSE LET r == Atoi(text)
         IN  IF r.err \/ r.value # e.answer
             THEN Resp(StatusBadRequest, "index.html", NoToken, MsgIncorrect,
                       FormatInt(e.answer))
             ELSE Resp(StatusOK, "success.html", NoToken, "", <<>>)

ValidateResponse(found, e, text) ==
    IF ~found THEN Resp(StatusBadRequest, "index.html", NoToken, MsgExpired, <<>>)
    ELSE LET r == Atoi(text)
         IN  IF r.err \/ r.value # e.answer
             THEN Resp(StatusBadRequest, "index.html", NoToken, MsgIncorrect, <<>>)
             ELSE Resp(StatusOK, "success.html", NoToken, "", <<>>)

(***************************************************************************)
(* Rendering: the noise strokes of generateImage.                          *)
(***************************************************************************)
\* the canvas of generateImage
width == 200
height == 80

\* the strokes addDistortion draws
NumStrokes == 10

abs(x) == IF x < 0 THEN -x ELSE x

\* drawLine stepping down for every line
drawLineEnterDown(x0, y0, x1, y1) ==
    LET dx == abs(x1 - x0)
        dy == abs(y1 - y0)
    IN  [x0 |-> x0, y0 |-> y0, x1 |-> x1, y1 |-> y1, dx |-> dx, dy |-> dy,
         sx |-> IF x0 > x1 THEN -1 ELSE 1,
         sy |-> 1,
         err |-> dx - dy]

\* the locals of drawLine(img, x0, y0, x1, y1, color) when it enters its loop
drawLineEnter(x0, y0, x1, y1) ==
    LET dx == abs(x1 - x0)
        dy == abs(y1 - y0)
    IN  [x0 |-> x0, y0 |-> y0, x1 |-> x1, y1 |-> y1, dx |-> dx, dy |-> dy,
         sx |-> IF x0 > x1 THEN -1 ELSE 1,
         sy |-> IF y0 > y1 THEN -1 ELSE 1,
         err |-> dx - dy]

\* the loop of drawLine leaves at the break
drawLineAtEnd(l) == l.x0 = l.x1 /\ l.y0 = l.y1

\* an iteration of drawLine whose second test reads the err the first test
\* has updated
drawLineIterReread(l) ==
    LET e2 == 2 * l.err
        stepX == e2 > -l.dy
        err1 == IF stepX THEN l.err - l.dy ELSE l.err
        stepY == 2 * err1 < l.dx
    IN  [l EXCEPT !.err = IF stepY THEN err1 + l.dx ELSE err1,
                  !.x0 = IF stepX THEN @ + l.sx ELSE @,
                  !.y0 = IF stepY THEN @ + l.sy ELSE @]

\* the locals of drawLine after the part of one iteration that follows the
\* break test: e2 is computed once, both tests read it
drawLineIter(l) ==
    LET e2 == 2 * l.err
        stepX == e2 > -l.dy
        stepY == e2 < l.dx
    IN  [l EXCEPT !.err = @ - (IF stepX THEN l.dy ELSE 0)
                            + (IF stepY THEN l.dx ELSE 0),
                  !.x0 = IF stepX THEN @ + l.sx ELSE @,
                  !.y0 = IF stepY THEN @ + l.sy ELSE @]

RECURSIVE drawLineRun(_)
\* the pixels img.Set is called with by the loop of drawLine from l on
drawLineRun(l) ==
    {<<l.x0, l.y0>>}
        \cup (IF drawLineAtEnd(l) THEN {} ELSE drawLineRun(drawLineIter(l)))

\* drawLine stopping before it sets the pixel of its end
drawLineOpen(q) ==
    drawLineRun(drawLineEnter(q[1], q[2], q[3], q[4])) \ {<<q[3], q[4]>>}

\* the pixels one call drawLine(img, q[1], q[2], q[3], q[4], color) sets
drawLine(q) == drawLineRun(drawLineEnter(q[1], q[2], q[3], q[4]))

\* no drawLine call is running
NoLine == drawLineEnter(0, 0, 0, 0)

(***************************************************************************)
(* State.                                                                  *)
(***************************************************************************)
VARIABLES
    data,        \* captchaStore.data: token -> captchaEntry
    writer,      \* the handler holding captchaStore's write lock, or 0
    readers,     \* the handlers holding captchaStore's read lock
    pc,          \* where each handler is
    route,       \* the route each handler serves
    captchaID,   \* local captchaID of each handler
    userAnswer,  \* local userAnswer of the /validate handler
    generated,   \* locals equation, answer of the create handlers
    entry,       \* local entry of the image and /validate handlers
    exists,      \* local exists of the image and /validate handlers
    response,    \* what each handler wrote to its client
    life,        \* history of each token: issued, consumed, validated
    line,        \* the locals of the drawLine call that is running
    start,       \* history: the (x0, y0) that drawLine call was given
    written,     \* history: the pixels that drawLine call has set, in order
    lpc,         \* where that drawLine call is
    strokes,     \* the loop counter i of each addDistortion call
    noise,       \* the pixels each addDistortion call has set
    drawn        \* history: the endpoints each addDistortion call has drawn

serving == <<data, writer, readers, pc, route, captchaID, userAnswer,
             generated, entry, exists, response, life>>

rendering == <<line, start, written, lpc, strokes, noise, drawn>>

vars == <<serving, rendering>>

store == <<data, writer, readers>>
locals == <<route, captchaID, userAnswer, generated, entry, exists, response>>

NoHandler == 0

Life(st, ch) == [st |-> st, ch |-> ch]
Never == Life("never", ZeroEntry)
Reissued == Life("reissued", ZeroEntry)

\* no generateImage call is running
RenderIdle ==
    /\ line = NoLine
    /\ start = <<0, 0>>
    /\ written = <<>>
    /\ lpc = "idle"
    /\ strokes = <<>>
    /\ noise = <<>>
    /\ drawn = <<>>

\* the store is empty, the handlers H are idle
ServingInit(H) ==
    /\ data = << >>
    /\ writer = NoHandler
    /\ readers = {}
    /\ pc = [h \in H |-> "idle"]
    /\ route = [h \in H |-> ""]
    /\ captchaID = [h \in H |-> NoToken]
    /\ userAnswer = [h \in H |-> <<>>]
    /\ generated = [h \in H |-> ZeroEntry]
    /\ entry = [h \in H |-> ZeroEntry]
    /\ exists = [h \in H |-> FALSE]
    /\ response = [h \in H |-> NoResponse]
    /\ life = [t \in Tokens |-> Never]

\* the process has started
InitOf(H) == ServingInit(H) /\ RenderIdle

Init == InitOf(Handlers)

(***************************************************************************)
(* sync.RWMutex.                                                           *)
(***************************************************************************)
\* a Lock that does not wait for the readers to leave
LockOverReaders(h) ==
    /\ writer = NoHandler
    /\ writer' = h
    /\ readers' = readers

\* Lock returns once no handler holds the lock in either mode
Lock(h) ==
    /\ writer = NoHandler
    /\ readers = {}
    /\ writer' = h
    /\ readers' = readers

\* the handlers that are in a Lock call that has not returned. What a
\* handler does before it calls Lock touches its locals only, so a handler
\* on its way to the call is taken to be in it.
InLock == {x \in DOMAIN pc : pc[x] \in {"c_lock", "v_lock"}}

\* the handlers that are in an RLock call that has not returned
InRLock == {x \in DOMAIN pc : pc[x] = "i_rlock"}

\* Unlock lets in the readers that were blocked by the writer: they hold
\* the lock in read mode from here on, and the next Lock waits for them
Unlock(h) ==
    /\ writer = h
    /\ writer' = NoHandler
    /\ readers' = readers \cup InRLock

\* RLock returns at once when no Lock call holds or awaits the lock: a
\* pending Lock keeps new readers out. A reader that an Unlock has let in
\* returns as well.
RLock(h) ==
    /\ \/ h \in readers
       \/ writer = NoHandler /\ InLock = {}
    /\ readers' = readers \cup {h}
    /\ writer' = writer

RUnlock(h) ==
    /\ h \in readers
    /\ readers' = readers \ {h}
    /\ writer' = writer

(***************************************************************************)
(* Map operations on captchaStore.data.                                    *)
(***************************************************************************)
\* a put that replaces the map by one holding the new entry alone
MapPutAlone(m, k, v) == [x \in {k} |-> v]

MapPut(m, k, v) == [x \in DOMAIN m \cup {k} |-> IF x = k THEN v ELSE m[x]]

\* a delete that empties the map
MapDeleteAll(m, k) == [x \in {} |-> ZeroEntry]

MapDelete(m, k) == [x \in DOMAIN m \ {k} |-> m[x]]

MapHas(m, k) == k \in DOMAIN m

MapGet(m, k) == IF k \in DOMAIN m THEN m[k] ELSE ZeroEntry

(***************************************************************************)
(* GET / and GET /captcha/new.                                             *)
(***************************************************************************)
\* generateEquation() and uuid.New().String(), the rand.Int outcomes of
\* generateEquation being taken from D and the uuid from T
C_StartWith(h, D, T) ==
    /\ pc[h] = "idle"
    /\ \E r \in {"/", "/captcha/new"}, d \in D, u \in T :
        /\ ValidDraw(d)
        /\ route' = [route EXCEPT ![h] = r]
        /\ generated' = [generated EXCEPT ![h] = generateEquation(d)]
        /\ captchaID' = [captchaID EXCEPT ![h] = u]
    /\ pc' = [pc EXCEPT ![h] = "c_lock"]
    /\ UNCHANGED rendering
    /\ UNCHANGED <<store, userAnswer, entry, exists, response, life>>

C_Start(h) == C_StartWith(h, Draws, Tokens)

\* a create whose generateEquation may draw every outcome
G_Start(h) == C_StartWith(h, AllDraws, Tokens)

C_Lock(h) ==
    /\ pc[h] = "c_lock"
    /\ Lock(h)
    /\ pc' = [pc EXCEPT ![h] = "c_insert"]
    /\ UNCHANGED rendering
    /\ UNCHANGED <<data, locals, life>>

\* captchaStore.data[captchaID] = captchaEntry{...}
C_Insert(h) ==
    /\ pc[h] = "c_insert"
    /\ data' = MapPut(data, captchaID[h], generated[h])
    /\ life' = [life EXCEPT ![captchaID[h]] =
                  IF @.st = "never" THEN Life("issued", generated[h])
                  ELSE Reissued]
    /\ pc' = [pc EXCEPT ![h] = "c_unlock"]
    /\ UNCHANGED rendering
    /\ UNCHANGED <<writer, readers, locals>>

C_Unlock(h) ==
    /\ pc[h] = "c_unlock"
    /\ Unlock(h)
    /\ pc' = [pc EXCEPT ![h] = "c_respond"]
    /\ UNCHANGED rendering
    /\ UNCHANGED <<data, locals, life>>

C_Respond(h) ==
    /\ pc[h] = "c_respond"
    /\ response' = [response EXCEPT ![h] = CreateResponse(route[h], captchaID[h])]
    /\ pc' = [pc EXCEPT ![h] = "done"]
    /\ UNCHANGED rendering
    /\ UNCHANGED <<store, route, captchaID, userAnswer, generated, entry,
                   exists, life>>

(***************************************************************************)
(* GET /captcha/image/:id.                                                 *)
(***************************************************************************)
\* c.Param("id"), taken from T
I_StartWith(h, T) ==
    /\ pc[h] = "idle"
    /\ \E u \in T : captchaID' = [captchaID EXCEPT ![h] = u]
    /\ route' = [route EXCEPT ![h] = "/captcha/image/:id"]
    /\ pc' = [pc EXCEPT ![h] = "i_rlock"]
    /\ UNCHANGED rendering
    /\ UNCHANGED <<store, userAnswer, generated, entry, exists, response, life>>

I_Start(h) == I_StartWith(h, Tokens)

I_RLock(h) ==
    /\ pc[h] = "i_rlock"
    /\ RLock(h)
    /\ pc' = [pc EXCEPT ![h] = "i_read"]
    /\ UNCHANGED rendering
    /\ UNCHANGED <<data, locals, life>>

\* the image handler consuming the entry it reads
I_ReadConsume(h) ==
    /\ pc[h] = "i_read"
    /\ entry' = [entry EXCEPT ![h] = MapGet(data, captchaID[h])]
    /\ exists' = [exists EXCEPT ![h] = MapHas(data, captchaID[h])]
    /\ data' = MapDelete(data, captchaID[h])
    /\ pc' = [pc EXCEPT ![h] = "i_runlock"]
    /\ UNCHANGED rendering
    /\ UNCHANGED <<writer, readers, route, captchaID, userAnswer, generated,
                   response, life>>

\* entry, exists := captchaStore.data[captchaID]
I_Read(h) ==
    /\ pc[h] = "i_read"
    /\ entry' = [entry EXCEPT ![h] = MapGet(data, captchaID[h])]
    /\ exists' = [exists EXCEPT ![h] = MapHas(data, captchaID[h])]
    /\ pc' = [pc EXCEPT ![h] = "i_runlock"]
    /\ UNCHANGED rendering
    /\ UNCHANGED <<store, route, captchaID, userAnswer, generated, response,
                   life>>

I_RUnlock(h) ==
    /\ pc[h] = "i_runlock"
    /\ RUnlock(h)
    /\ pc' = [pc EXCEPT ![h] = "i_respond"]
    /\ UNCHANGED rendering
    /\ UNCHANGED <<data, locals, life>>

I_Respond(h) ==
    /\ pc[h] = "i_respond"
    /\ response' = [response EXCEPT ![h] = ImageResponse(exists[h], entry[h])]
    /\ pc' = [pc EXCEPT ![h] = "done"]
    /\ UNCHANGED rendering
    /\ UNCHANGED <<store, route, captchaID, userAnswer, generated, entry,
                   exists, life>>

(***************************************************************************)
(* POST /validate.                                                         *)
(***************************************************************************)
\* c.PostForm("captchaID") and c.PostForm("answer"), taken from T and
\* from A
V_StartWith(h, T, A) ==
    /\ pc[h] = "idle"
    /\ \E u \in T, a \in A :
        /\ captchaID' = [captchaID EXCEPT ![h] = u]
        /\ userAnswer' = [userAnswer EXCEPT ![h] = a]
    /\ route' = [route EXCEPT ![h] = "/validate"]
    /\ pc' = [pc EXCEPT ![h] = "v_lock"]
    /\ UNCHANGED rendering
    /\ UNCHANGED <<store, generated, entry, exists, response, life>>

V_Start(h) == V_StartWith(h, Tokens, AnswerTexts)

\* /validate taking the read lock where the code takes the write lock
V_LockShared(h) ==
    /\ pc[h] = "v_lock"
    /\ writer = NoHandler
    /\ readers' = readers \cup {h}
    /\ writer' = writer
    /\ pc' = [pc EXCEPT ![h] = "v_lookup"]
    /\ UNCHANGED rendering
    /\ UNCHANGED <<data, locals, life>>

V_Lock(h) ==
    /\ pc[h] = "v_lock"
    /\ Lock(h)
    /\ pc' = [pc EXCEPT ![h] = "v_lookup"]
    /\ UNCHANGED rendering
    /\ UNCHANGED <<data, locals, life>>

\* entry, exists := captchaStore.data[captchaID]
V_Lookup(h) ==
    /\ pc[h] = "v_lookup"
    /\ entry' = [entry EXCEPT ![h] = MapGet(data, captchaID[h])]
    /\ exists' = [exists EXCEPT ![h] = MapHas(data, captchaID[h])]
    /\ pc' = [pc EXCEPT ![h] = "v_delete"]
    /\ UNCHANGED rendering
    /\ UNCHANGED <<store, route, captchaID, userAnswer, generated, response,
                   life>>

\* /validate leaving the entry in the map
V_DeleteKeep(h) ==
    /\ pc[h] = "v_delete"
    /\ data' = data
    /\ life' = [life EXCEPT ![captchaID[h]] =
                  IF exists[h] /\ @.st = "issued" THEN Life("consumed", @.ch)
                  ELSE @]
    /\ pc' = [pc EXCEPT ![h] = "v_unlock"]
    /\ UNCHANGED rendering
    /\ UNCHANGED <<writer, readers, locals>>

\* /validate deleting the entry only when the answer is the right one
V_DeleteIfCorrect(h) ==
    /\ pc[h] = "v_delete"
    /\ data' = IF exists[h] /\ ~Atoi(userAnswer[h]).err
                    /\ Atoi(userAnswer[h]).value = entry[h].answer
               THEN MapDelete(data, captchaID[h]) ELSE data
    /\ life' = [life EXCEPT ![captchaID[h]] =
                  IF exists[h] /\ @.st = "issued" THEN Life("consumed", @.ch)
                  ELSE @]
    /\ pc' = [pc EXCEPT ![h] = "v_unlock"]
    /\ UNCHANGED rendering
    /\ UNCHANGED <<writer, readers, locals>>

\* if exists { delete(captchaStore.data, captchaID) }
V_Delete(h) ==
    /\ pc[h] = "v_delete"
    /\ data' = IF exists[h] THEN MapDelete(data, captchaID[h]) ELSE data
    /\ life' = [life EXCEPT ![captchaID[h]] =
                  IF exists[h] /\ @.st = "issued" THEN Life("consumed", @.ch)
                  ELSE @]
    /\ pc' = [pc EXCEPT ![h] = "v_unlock"]
    /\ UNCHANGED rendering
    /\ UNCHANGED <<writer, readers, locals>>

\* /validate going on to its answer without captchaStore.Unlock()
V_UnlockMissing(h) ==
    /\ pc[h] = "v_unlock"
    /\ pc' = [pc EXCEPT ![h] = "v_respond"]
    /\ UNCHANGED rendering
    /\ UNCHANGED <<store, locals, life>>

V_Unlock(h) ==
    /\ pc[h] = "v_unlock"
    /\ Unlock(h)
    /\ pc' = [pc EXCEPT ![h] = "v_respond"]
    /\ UNCHANGED rendering
    /\ UNCHANGED <<data, locals, life>>

V_Respond(h) ==
    /\ pc[h] = "v_respond"
    /\ response' = [response EXCEPT ![h] =
                      ValidateResponse(exists[h], entry[h], userAnswer[h])]
    /\ life' = [life EXCEPT ![captchaID[h]] =
                  IF exists[h] /\ @.st = "consumed" THEN Life("validated", @.ch)
                  ELSE @]
    /\ pc' = [pc EXCEPT ![h] = "done"]
    /\ UNCHANGED rendering
    /\ UNCHANGED <<store, route, captchaID, userAnswer, generated, entry,
                   exists>>

\* the handler function returns; its goroutine serves the next request
Return(h) ==
    /\ pc[h] = "done"
    /\ pc' = [pc EXCEPT ![h] = "idle"]
    /\ UNCHANGED rendering
    /\ route' = [route EXCEPT ![h] = ""]
    /\ captchaID' = [captchaID EXCEPT ![h] = NoToken]
    /\ userAnswer' = [userAnswer EXCEPT ![h] = <<>>]
    /\ generated' = [generated EXCEPT ![h] = ZeroEntry]
    /\ entry' = [entry EXCEPT ![h] = ZeroEntry]
    /\ exists' = [exists EXCEPT ![h] = FALSE]
    /\ response' = [response EXCEPT ![h] = NoResponse]
    /\ UNCHANGED <<store, life>>

Create(h) ==
    C_Start(h) \/ C_Lock(h) \/ C_Insert(h) \/ C_Unlock(h) \/ C_Respond(h)

Image(h) ==
    I_Start(h) \/ I_RLock(h) \/ I_Read(h) \/ I_RUnlock(h) \/ I_Respond(h)

Validate(h) ==
    V_Lock(h) \/ V_Lookup(h) \/ V_Delete(h) \/ V_Unlock(h) \/ V_Respond(h)

Next ==
    \E h \in Handlers :
        Create(h) \/ Image(h) \/ V_Start(h) \/ Validate(h) \/ Return(h)

Spec == Init /\ [][Next]_vars

(***************************************************************************)
(* SpecRace: K /validate invocations (1 <= K <= NumRacers), all for one    *)
(* token that is in the store, have read their form values and race to     *)
(* consume it.                                                             *)
(***************************************************************************)
InitRace ==
    \E t \in Tokens, d \in Draws, k \in Racers :
        /\ ValidDraw(d)
        /\ data = MapPut(<< >>, t, generateEquation(d))
        /\ life = [x \in Tokens |->
                     IF x = t THEN Life("issued", generateEquation(d))
                     ELSE Never]
        /\ writer = NoHandler
        /\ readers = {}
        /\ pc = [h \in 1..k |-> "v_lock"]
        /\ route = [h \in 1..k |-> "/validate"]
        /\ captchaID = [h \in 1..k |-> t]
        /\ userAnswer \in [1..k -> AnswerTexts]
        /\ generated = [h \in 1..k |-> ZeroEntry]
        /\ entry = [h \in 1..k |-> ZeroEntry]
        /\ exists = [h \in 1..k |-> FALSE]
        /\ response = [h \in 1..k |-> NoResponse]
        /\ RenderIdle

NextRace == \E h \in Racers : h \in DOMAIN pc /\ Validate(h)

SpecRace == InitRace /\ [][NextRace]_vars

\* the /validate handlers that have executed their lookup (line 96)
Looked == {h \in DOMAIN pc : pc[h] \in {"v_delete", "v_unlock", "v_respond", "done"}}

\* ... and found the entry
Winners == {h \in Looked : exists[h]}

NotFoundResponse ==
    Resp(StatusBadRequest, "index.html", NoToken, MsgExpired, <<>>)

\* C1: of the concurrent /validate invocations for one stored token, under
\* every interleaving, exactly one observes the entry (the first to look it
\* up) and every other one observes it absent and answers NotFound.
C1_ExactlyOneWinner ==
    /\ Looked # {} => Cardinality(Winners) = 1
    /\ \A h \in Looked \ Winners : entry[h] = ZeroEntry
    /\ (\A h \in DOMAIN pc : pc[h] = "done") =>
          /\ Cardinality(Winners) = 1
          /\ Cardinality({h \in DOMAIN pc : response[h] = NotFoundResponse})
                = Cardinality(DOMAIN pc) - 1

\* all racers have answered
C1_Witness ==
    /\ Cardinality(DOMAIN pc) > 1
    /\ \A h \in DOMAIN pc : pc[h] = "done" /\ route[h] = "/validate"
    /\ \E h \in DOMAIN pc : exists[h]


(***************************************************************************)
(* Claims checked under Spec.  A token is a uuid that the create handlers  *)
(* have inserted once: life[t].st is "issued" from its insertion to its    *)
(* consumption, "consumed" once a /validate deleted it and "validated"     *)
(* once that /validate has answered; life[t].ch is the challenge created.  *)
(* A uuid that uuid.New() draws a second time is "reissued".               *)
(***************************************************************************)
\* handler h takes the step from pc value p to pc value q
Step(h, p, q) == pc[h] = p /\ pc'[h] = q

IsValidate(h) == route[h] = "/validate"
IsImage(h) == route[h] = "/captcha/image/:id"
IsCreate(h) == route[h] \in {"/", "/captcha/new"}

SuccessResponse == Resp(StatusOK, "success.html", NoToken, "", <<>>)

\* C2: consume is single-use: for a token created once, the first consume
\* (lookup and delete under the lock) finds the entry and returns the
\* challenge that was created, the entry is then gone from the store, and
\* every later consume of that token finds nothing.
C2_SingleUse ==
    [][\A h \in DOMAIN pc :
          LET t == captchaID[h] IN
          /\ (Step(h, "v_lookup", "v_delete") /\ life[t].st = "issued") =>
                exists'[h] /\ entry'[h] = life[t].ch
          /\ (Step(h, "v_lookup", "v_delete")
                /\ life[t].st \in {"consumed", "validated"}) =>
                ~exists'[h] /\ entry'[h] = ZeroEntry
          /\ (Step(h, "v_delete", "v_unlock") /\ exists[h]) =>
                t \notin DOMAIN data'
          /\ \A u \in Tokens :
                life'[u].st \in {"consumed", "validated"} => u \notin DOMAIN data'
      ]_vars

\* a second consume of a consumed token has found nothing
C2_Witness ==
    \E h \in DOMAIN pc :
        /\ pc[h] = "v_delete"
        /\ ~exists[h]
        /\ life[captchaID[h]].st = "validated"


\* the submitted text parses as an integer equal to n
ParsesTo(text, n) == ~Atoi(text).err /\ Atoi(text).value = n

\* C3: validate removes the challenge whatever the outcome: once a /validate
\* that found the token has answered (right answer, wrong integer or text
\* that is no integer), the token is not in the store, and a /validate on
\* that token answering after it gets NotFound and never Success, also with
\* the right answer.
C3_RemovedRegardless ==
    [][\A h \in DOMAIN pc :
          LET t == captchaID[h] IN
          /\ (Step(h, "v_respond", "done") /\ exists[h]
                /\ life[t].st = "consumed") =>
                life'[t].st = "validated" /\ t \notin DOMAIN data'
          /\ \A u \in Tokens :
                life'[u].st = "validated" => u \notin DOMAIN data'
          /\ (Step(h, "v_respond", "done") /\ life[t].st = "validated") =>
                response'[h] = NotFoundResponse /\ response'[h] # SuccessResponse
      ]_vars

\* a token was consumed by a /validate with a wrong or malformed answer, and
\* a later /validate carrying the right answer got NotFound
C3_Witness ==
    \E h \in DOMAIN pc :
        LET t == captchaID[h] IN
        /\ pc[h] = "done" /\ IsValidate(h)
        /\ life[t].st = "validated"
        /\ ParsesTo(userAnswer[h], life[t].ch.answer)
        /\ response[h] = NotFoundResponse

\* C4: validate answers Success exactly when the token was found by the
\* consume step and the text parses as an integer equal to the answer
\* stored for the token (for a token created once: the answer generated at
\* its creation); every other outcome is a failure with a 4xx status.
C4_SuccessIff ==
    \A h \in DOMAIN pc :
        (pc[h] = "done" /\ IsValidate(h)) =>
            LET t == captchaID[h]
                ok == exists[h] /\ ParsesTo(userAnswer[h], entry[h].answer)
            IN  /\ response[h] = SuccessResponse <=> ok
                /\ ~ok => /\ response[h].status \in 400..499
                          /\ response[h].view # "success.html"
                /\ (exists[h] /\ life[t].st # "reissued") =>
                      /\ life[t].st = "validated"
                      /\ entry[h] = life[t].ch

\* a /validate has answered Success
C4_Witness ==
    \E h \in DOMAIN pc :
        /\ pc[h] = "done" /\ IsValidate(h)
        /\ exists[h]
        /\ response[h] = SuccessResponse

\* C5: with the token present, text that does not parse as an integer gets
\* a failure (Malformed) that the client can tell from the failure
\* (Incorrect) given to an integer that differs from the stored answer.
C5_MalformedDistinct ==
    \A h1, h2 \in DOMAIN pc :
        ( /\ pc[h1] = "done" /\ IsValidate(h1) /\ exists[h1]
          /\ pc[h2] = "done" /\ IsValidate(h2) /\ exists[h2]
          /\ Atoi(userAnswer[h1]).err
          /\ ~Atoi(userAnswer[h2]).err
          /\ Atoi(userAnswer[h2]).value # entry[h2].answer )
        => response[h1] # response[h2]

\* C6: NotFound comes first: a /validate whose consume step did not find the
\* token answers NotFound whatever the text is, text that is no integer
\* included, and the text decides the answer only when the entry was found.
C6_NotFoundFirst ==
    \A h \in DOMAIN pc :
        (pc[h] = "done" /\ IsValidate(h)) =>
            /\ ~exists[h] => response[h] = NotFoundResponse
            /\ exists[h] => response[h] # NotFoundResponse
            /\ life[captchaID[h]].st = "never" => response[h] = NotFoundResponse

\* a /validate for an absent token with text that is no integer got NotFound
C6_Witness ==
    \E h \in DOMAIN pc :
        /\ pc[h] = "done" /\ IsValidate(h)
        /\ ~exists[h]
        /\ Atoi(userAnswer[h]).err
        /\ response[h] = NotFoundResponse


NotFoundStatus == Resp(StatusNotFound, "", NoToken, "", <<>>)

\* C7: an image request for a token that is in the store finds it and
\* answers with an image of exactly the equation generated at the token's
\* creation; for a token that was never created, or whose /validate has
\* already answered, it finds nothing and answers 404.
C7_PeekReturnsEquation ==
    [][\A h \in DOMAIN pc :
          LET t == captchaID[h] IN
          /\ (Step(h, "i_read", "i_runlock") /\ life[t].st = "issued") =>
                /\ exists'[h]
                /\ entry'[h].equation = life[t].ch.equation
          /\ (Step(h, "i_read", "i_runlock") /\ t \in DOMAIN data) =>
                exists'[h] /\ entry'[h] = data[t]
          /\ (Step(h, "i_read", "i_runlock")
                /\ life[t].st \in {"never", "consumed", "validated"}) =>
                ~exists'[h]
          /\ (Step(h, "i_respond", "done") /\ exists[h]) =>
                /\ response'[h].status = StatusOK
                /\ response'[h].view = "image/png"
                /\ response'[h].text = entry[h].equation
                /\ life[t].st # "reissued" =>
                      response'[h].text = life[t].ch.equation
          /\ (Step(h, "i_respond", "done") /\ ~exists[h]) =>
                response'[h] = NotFoundStatus
          /\ (Step(h, "i_respond", "done") /\ life[t].st = "never") =>
                response'[h] = NotFoundStatus
      ]_vars

\* an image request answered with the equation created for a stored token,
\* and another one answered 404 for a token whose /validate has answered
C7_Witness ==
    /\ \E h \in DOMAIN pc :
        /\ pc[h] = "done" /\ IsImage(h)
        /\ life[captchaID[h]].st = "issued"
        /\ response[h].status = StatusOK
        /\ response[h].text = life[captchaID[h]].ch.equation
        /\ response[h].text = <<"3", " ", "+", " ", "4", " ", "=", " ", "?">>
    /\ \E h \in DOMAIN pc :
        /\ pc[h] = "done" /\ IsImage(h)
        /\ life[captchaID[h]].st = "validated"
        /\ response[h] = NotFoundStatus

\* C8: peek is non-destructive: no step of an image request, found or not,
\* repeated or interleaved with creates and consumes, changes the store
\* mapping.
C8_PeekNonDestructive ==
    [][\A h \in DOMAIN pc :
          (IsImage(h) /\ pc'[h] # pc[h]) => data' = data
      ]_vars

\* an image request found a token and the token is still in the store
C8_Witness ==
    \E h \in DOMAIN pc :
        /\ pc[h] = "done" /\ IsImage(h)
        /\ exists[h]
        /\ captchaID[h] \in DOMAIN data
        /\ data[captchaID[h]] = entry[h]

\* the entry of token t is deleted or modified by the step
Touched(t) == t \in DOMAIN data /\ (t \notin DOMAIN data' \/ data'[t] # data[t])

\* C9 as stated: an entry is deleted or modified only by the delete of a
\* /validate on its own token; creates never delete or modify it.
C9_OnlyValidateTouches ==
    [][\A t \in Tokens :
          Touched(t) =>
              \E h \in DOMAIN pc :
                  /\ captchaID[h] = t
                  /\ Step(h, "v_delete", "v_unlock")
      ]_vars

\* C9 as amended: an entry is removed only by the delete of a /validate on
\* its own token, and modified only by a create whose uuid.New() drew the
\* same token again; requests on other tokens and image requests never
\* delete or modify it, and no other step does.
C9_OnlyOwnTokenTouches ==
    [][\A t \in Tokens :
          /\ Touched(t) =>
              \E h \in DOMAIN pc :
                  /\ captchaID[h] = t
                  /\ \/ Step(h, "v_delete", "v_unlock") /\ t \notin DOMAIN data'
                     \/ Step(h, "c_insert", "c_unlock") /\ t \in DOMAIN data'
          /\ (t \in DOMAIN data /\ t \notin DOMAIN data') =>
              \E h \in DOMAIN pc :
                  captchaID[h] = t /\ Step(h, "v_delete", "v_unlock") /\ exists[h]
          /\ (life[t].st = "issued" /\ life'[t].st = "issued") =>
              t \in DOMAIN data' /\ data'[t] = life[t].ch
      ]_vars

\* a /validate deleted the entry of one token and the entry of the other
\* token is still the one created
C9_Witness ==
    \E t, u \in Tokens :
        /\ t # u
        /\ life[t].st = "consumed"
        /\ t \notin DOMAIN data
        /\ life[u].st = "issued"
        /\ u \in DOMAIN data /\ data[u] = life[u].ch

\* C10 as stated: every create inserts under a token that is not a key of
\* the store: the store gains exactly one entry and no entry is overwritten.
C10_NeverCollides ==
    [][\A h \in DOMAIN pc :
          Step(h, "c_insert", "c_unlock") =>
              /\ captchaID[h] \notin DOMAIN data
              /\ Cardinality(DOMAIN data') = Cardinality(DOMAIN data) + 1
              /\ \A t \in DOMAIN data : t \in DOMAIN data' /\ data'[t] = data[t]
      ]_vars

\* C10 as amended: every create stores its challenge under the token it
\* drew and leaves every other entry as it was; the store gains exactly one
\* entry when the token is not a key of the store, and when uuid.New() drew
\* a token that is a key, the entry of that token is overwritten and the
\* store gains nothing.
C10_InsertUnderDrawnToken ==
    [][\A h \in DOMAIN pc :
          Step(h, "c_insert", "c_unlock") =>
              LET t == captchaID[h] IN
              /\ t \in DOMAIN data' /\ data'[t] = generated[h]
              /\ \A u \in DOMAIN data \ {t} :
                    u \in DOMAIN data' /\ data'[u] = data[u]
              /\ DOMAIN data' = DOMAIN data \cup {t}
              /\ Cardinality(DOMAIN data') =
                    Cardinality(DOMAIN data) + (IF t \in DOMAIN data THEN 0 ELSE 1)
      ]_vars

\* two creates have inserted under different tokens, both entries stored
C10_Witness ==
    \E h \in DOMAIN pc :
        /\ pc[h] = "c_unlock"
        /\ Cardinality(DOMAIN data) = 2
        /\ data[captchaID[h]] = generated[h]
        /\ \E u \in DOMAIN data : u # captchaID[h] /\ data[u] # generated[h]


(***************************************************************************)
(* SpecGen: one create request whose generateEquation draws any outcome of *)
(* its three rand.Int calls, and stores the challenge.                     *)
(***************************************************************************)
InitGen == InitOf({1})

NextGen ==
    \E h \in {1} :
        G_Start(h) \/ C_Lock(h) \/ C_Insert(h) \/ C_Unlock(h) \/ C_Respond(h)

SpecGen == InitGen /\ [][NextGen]_vars

RECURSIVE SplitAt(_, _, _)
\* the fields of text between the separator characters sep; cur is the
\* field being read
SplitAt(text, sep, cur) ==
    IF text = <<>> THEN <<cur>>
    ELSE IF Head(text) = sep THEN <<cur>> \o SplitAt(Tail(text), sep, <<>>)
    ELSE SplitAt(Tail(text), sep, Append(cur, Head(text)))

Fields(text) == SplitAt(text, " ", <<>>)

\* the equation text reads "<a> <op> <b> = ?" with decimal a and b
IsEquationText(text) ==
    LET f == Fields(text) IN
    /\ Len(f) = 5
    /\ ~Atoi(f[1]).err /\ f[1] = FormatInt(Atoi(f[1]).value)
    /\ Len(f[2]) = 1
    /\ ~Atoi(f[3]).err /\ f[3] = FormatInt(Atoi(f[3]).value)
    /\ f[4] = <<"=">>
    /\ f[5] = <<"?">>

TextA(text) == Atoi(Fields(text)[1]).value
TextOp(text) == Fields(text)[2][1]
TextB(text) == Atoi(Fields(text)[3]).value

\* the challenges a handler holds or the store keeps
Challenges ==
    {generated[h] : h \in {x \in DOMAIN pc : IsCreate(x)}}
        \cup {data[t] : t \in DOMAIN data}

\* C11: every challenge that generateEquation produces, and so every entry
\* of the store, reads "<a> <op> <b> = ?" with op one of +, -, *, and its
\* answer is a op b for the operands a and b that appear in the text.
C11_AnswerIsEvaluation ==
    \A e \in Challenges :
        /\ IsEquationText(e.equation)
        /\ LET a == TextA(e.equation)
               b == TextB(e.equation)
               op == TextOp(e.equation)
           IN  /\ op \in {"+", "-", "*"}
               /\ op = "+" => e.answer = a + b
               /\ op = "-" => e.answer = a - b
               /\ op = "*" => e.answer = a * b

\* the store keeps "10 * 10 = ?" with the answer 100
C11_Witness ==
    \E t \in DOMAIN data :
        /\ data[t].equation =
              <<"1", "0", " ", "*", " ", "1", "0", " ", "=", " ", "?">>
        /\ data[t].answer = 100

\* C12: whatever the random draws are, the operands of + and * are both in
\* 1..10, and for - the first operand is in 1..20 and the second in 1..a,
\* so that the answer of a subtraction is never negative.
C12_OperandRanges ==
    \A e \in Challenges :
        LET a == TextA(e.equation)
            b == TextB(e.equation)
            op == TextOp(e.equation)
        IN  /\ op \in {"+", "*"} => a \in 1..10 /\ b \in 1..10
            /\ op = "-" => a \in 1..20 /\ b \in 1..a /\ b <= a /\ e.answer >= 0

\* the store keeps a subtraction with the largest first operand and the
\* largest second operand: "20 - 20 = ?" with the answer 0
C12_Witness ==
    \E t \in DOMAIN data :
        /\ TextOp(data[t].equation) = "-"
        /\ TextA(data[t].equation) = 20
        /\ TextB(data[t].equation) = 20
        /\ data[t].answer = 0


\* the answers generateEquation can produce
Answers == {generateEquation(d).answer : d \in AllDraws}

\* C13: a failed validation does not tell the answer: two /validate requests
\* with the same text that both found their challenge and both failed get
\* the same response (status and message) although the stored answers
\* differ, and the response of a failed /validate is the one it would get
\* with any other stored answer under which it fails as well.
C13_FailureIndependentOfAnswer ==
    /\ \A h1, h2 \in DOMAIN pc :
        ( /\ pc[h1] = "done" /\ IsValidate(h1)
          /\ pc[h2] = "done" /\ IsValidate(h2)
          /\ exists[h1] = exists[h2]
          /\ userAnswer[h1] = userAnswer[h2]
          /\ response[h1] # SuccessResponse
          /\ response[h2] # SuccessResponse )
        => response[h1] = response[h2]
    /\ \A h \in DOMAIN pc :
        (pc[h] = "done" /\ IsValidate(h) /\ response[h] # SuccessResponse) =>
            \A n \in Answers :
                LET other == ValidateResponse(exists[h],
                                 [entry[h] EXCEPT !.answer = n], userAnswer[h])
                IN  other # SuccessResponse => other = response[h]

\* two /validate requests with the integer 8 have found challenges with
\* different answers and both were answered "Incorrect answer"
C13_Witness ==
    \E h1, h2 \in DOMAIN pc :
        /\ pc[h1] = "done" /\ IsValidate(h1) /\ exists[h1]
        /\ pc[h2] = "done" /\ IsValidate(h2) /\ exists[h2]
        /\ userAnswer[h1] = <<"8">> /\ userAnswer[h2] = <<"8">>
        /\ entry[h1].answer # entry[h2].answer
        /\ response[h1].error = MsgIncorrect
        /\ response[h2].error = MsgIncorrect


(***************************************************************************)
(* SpecLine: one drawLine call between two endpoints that addDistortion    *)
(* drew, one action for each iteration of its loop.                        *)
(***************************************************************************)
\* the outcomes of randInt(width) and randInt(height) that are enumerated
XDraws == {n \in RandInt(width) : n <= MaxX}
YDraws == {n \in RandInt(height) : n <= MaxY}

\* addDistortion has drawn the endpoints and called drawLine, which has
\* computed dx, dy, sx, sy and err and enters its loop
InitLine ==
    /\ ServingInit({})
    /\ \E x0 \in XDraws, y0 \in YDraws, x1 \in XDraws, y1 \in YDraws :
        /\ line = drawLineEnter(x0, y0, x1, y1)
        /\ start = <<x0, y0>>
    /\ written = <<>>
    /\ lpc = "loop"
    /\ strokes = <<>>
    /\ noise = <<>>
    /\ drawn = <<>>

\* an iteration that sets the pixel and goes on
L_Iter ==
    /\ lpc = "loop"
    /\ ~drawLineAtEnd(line)
    /\ written' = Append(written, <<line.x0, line.y0>>)
    /\ line' = drawLineIter(line)
    /\ UNCHANGED <<serving, start, lpc, strokes, noise, drawn>>

\* the iteration that sets the pixel and leaves the loop
L_Break ==
    /\ lpc = "loop"
    /\ drawLineAtEnd(line)
    /\ written' = Append(written, <<line.x0, line.y0>>)
    /\ lpc' = "done"
    /\ UNCHANGED <<serving, line, start, strokes, noise, drawn>>

NextLine == L_Iter \/ L_Break

\* drawLine is sequential code: its next iteration is executed
SpecLine == InitLine /\ [][NextLine]_vars /\ WF_vars(NextLine)

Max(a, b) == IF a >= b THEN a ELSE b
Min(a, b) == IF a <= b THEN a ELSE b

\* the length of the line along its major axis
Major == Max(line.dx, line.dy)

C15_Writes ==
    /\ written # <<>> => written[1] = start
    /\ Len(written) <= Major + 1
    /\ lpc = "done" =>
          /\ written[Len(written)] = <<line.x1, line.y1>>
          /\ Len(written) = Major + 1

C15_Advance ==
    (lpc = "loop" /\ line' # line) =>
        /\ line.dx >= line.dy =>
              /\ abs(line'.x0 - line.x0) = 1
              /\ abs(line.x1 - line'.x0) = abs(line.x1 - line.x0) - 1
        /\ line.dy >= line.dx =>
              /\ abs(line'.y0 - line.y0) = 1
              /\ abs(line.y1 - line'.y0) = abs(line.y1 - line.y0) - 1

\* C15: drawLine terminates for all endpoints enumerated, x0 = x1 and
\* y0 = y1 included: the first pixel it sets is (x0, y0), the last is
\* (x1, y1), every iteration moves the major-axis coordinate by exactly one
\* towards the end, and it sets max(|x1-x0|, |y1-y0|) + 1 pixels.
C15_DrawLineTerminates ==
    /\ []C15_Writes
    /\ [][C15_Advance]_vars
    /\ (lpc = "loop") ~> (lpc = "done")

\* a line across the whole width enumerated that is neither horizontal nor
\* diagonal has been drawn
C15_Witness ==
    /\ lpc = "done"
    /\ line.dx = MaxX
    /\ line.dy \in 1..(MaxX - 1)
    /\ Len(written) = MaxX + 1
    /\ written[1] = start
    /\ written[Len(written)] = <<line.x1, line.y1>>

\* C16: every pixel drawLine sets is in the bounding rectangle of the two
\* endpoints, and so inside the canvas; consecutive pixels differ by at most
\* one in each coordinate; and every pixel is at most one pixel from the
\* ideal line, measured along the minor axis.
C16_NearIdealLine ==
    \A i \in 1..Len(written) :
        LET x == written[i][1]
            y == written[i][2]
            cross == (y - start[2]) * (line.x1 - start[1])
                        - (x - start[1]) * (line.y1 - start[2])
        IN  /\ Min(start[1], line.x1) <= x /\ x <= Max(start[1], line.x1)
            /\ Min(start[2], line.y1) <= y /\ y <= Max(start[2], line.y1)
            /\ 0 <= x /\ x < width
            /\ 0 <= y /\ y < height
            /\ i > 1 => /\ abs(x - written[i - 1][1]) <= 1
                        /\ abs(y - written[i - 1][2]) <= 1
            /\ abs(cross) <= Major

\* a steep line drawn upwards and to the left has been drawn
C16_Witness ==
    /\ lpc = "done"
    /\ line.sx = -1 /\ line.sy = -1
    /\ line.dy > line.dx /\ line.dx > 1
    /\ Len(written) = line.dy + 1


(***************************************************************************)
(* SpecNoise: generateImage is called twice with the same text; each call  *)
(* runs addDistortion, one action for each stroke.                         *)
(***************************************************************************)
\* the two generateImage calls
Renders == {1, 2}

\* the outcomes (x1, y1, x2, y2) of the four randInt calls of one stroke
\* that are enumerated: a line, the same line from its other end, a line
\* that slopes, and a point on it
NoiseDraws ==
    { <<0, 0, 3, 0>>, <<3, 0, 0, 0>>, <<0, 0, 3, 2>>, <<2, 1, 2, 1>> }

\* both calls have drawn the text and enter the loop of addDistortion
InitNoise ==
    /\ ServingInit({})
    /\ line = NoLine
    /\ start = <<0, 0>>
    /\ written = <<>>
    /\ lpc = "idle"
    /\ strokes = [r \in Renders |-> 0]
    /\ noise = [r \in Renders |-> {}]
    /\ drawn = [r \in Renders |-> {}]

\* one iteration of the loop of addDistortion in call r
N_Stroke(r) ==
    /\ strokes[r] < NumStrokes
    /\ \E q \in NoiseDraws :
        /\ q[1] \in RandInt(width) /\ q[2] \in RandInt(height)
        /\ q[3] \in RandInt(width) /\ q[4] \in RandInt(height)
        /\ noise' = [noise EXCEPT ![r] = @ \cup drawLine(q)]
        /\ drawn' = [drawn EXCEPT ![r] = @ \cup {q}]
    /\ strokes' = [strokes EXCEPT ![r] = @ + 1]
    /\ UNCHANGED <<serving, line, start, written, lpc>>

NextNoise == \E r \in Renders : N_Stroke(r)

SpecNoise == InitNoise /\ [][NextNoise]_vars

\* both addDistortion calls have returned
BothRendered == \A r \in Renders : strokes[r] = NumStrokes

\* C14 as stated: two renderings of the same text never have the same
\* noise pixels.
C14_AlwaysDifferent ==
    BothRendered => noise[1] # noise[2]

\* C14, amended: the noise of a rendering is decided by the endpoints its
\* randInt calls drew and by nothing else: every stroke sets both of its
\* endpoints and only pixels of the canvas, a rendering that has returned
\* has drawn NumStrokes strokes, two renderings that drew the same
\* endpoints have the same noise, and renderings with different noise drew
\* different endpoints.
C14_NoiseFollowsDraws ==
    /\ \A r \in Renders :
        /\ \A q \in drawn[r] :
              <<q[1], q[2]>> \in noise[r] /\ <<q[3], q[4]>> \in noise[r]
        /\ \A p \in noise[r] :
              p[1] \in 0..(width - 1) /\ p[2] \in 0..(height - 1)
        /\ strokes[r] <= NumStrokes
        /\ Cardinality(drawn[r]) <= strokes[r]
        /\ strokes[r] > 0 => drawn[r] # {}
    /\ drawn[1] = drawn[2] => noise[1] = noise[2]
    /\ noise[1] # noise[2] => drawn[1] # drawn[2]

\* both renderings have returned and their noise differs
C14_Witness ==
    /\ BothRendered
    /\ noise[1] # noise[2]
    /\ <<3, 2>> \in noise[1]
    /\ <<3, 2>> \notin noise[2]


\* the /validate handlers that have answered Success for token t
Succeeded(t) ==
    {h \in DOMAIN pc : /\ pc[h] = "done" /\ IsValidate(h)
                       /\ captchaID[h] = t /\ response[h] = SuccessResponse}

C17_OneSuccessAtATime ==
    \A t \in Tokens :
        life[t].st # "reissued" =>
            /\ Cardinality(Succeeded(t)) <= 1
            /\ Succeeded(t) # {} => life[t].st = "validated"

C17_SuccessOnlyOnce ==
    \A h \in DOMAIN pc :
        LET t == captchaID[h] IN
        ( /\ Step(h, "v_respond", "done")
          /\ response'[h] = SuccessResponse
          /\ life[t].st # "reissued" )
        => /\ life[t].st = "consumed"
           /\ life'[t].st = "validated"
           /\ exists[h]
           /\ ParsesTo(userAnswer[h], life[t].ch.answer)

\* C17: a token that is created once gets at most one Success in total:
\* the Success of a /validate is the step that takes the token from
\* consumed to validated, a step no token takes twice, so that a right
\* answer cannot be replayed; and two /validate requests with the right
\* answer for one token never both hold a Success.
C17_AtMostOneSuccess ==
    /\ []C17_OneSuccessAtATime
    /\ [][C17_SuccessOnlyOnce]_vars

\* two /validate requests with the right answer for one token have been
\* answered, one with Success and one with NotFound
C17_Witness ==
    \E h1, h2 \in DOMAIN pc :
        /\ h1 # h2
        /\ pc[h1] = "done" /\ IsValidate(h1)
        /\ pc[h2] = "done" /\ IsValidate(h2)
        /\ captchaID[h1] = captchaID[h2]
        /\ life[captchaID[h1]].st = "validated"
        /\ userAnswer[h1] = userAnswer[h2]
        /\ ParsesTo(userAnswer[h1], life[captchaID[h1]].ch.answer)
        /\ response[h1] = SuccessResponse
        /\ response[h2] = NotFoundResponse


\* where a handler is between captchaStore.Lock() and captchaStore.Unlock()
WriteSection == {"c_insert", "c_unlock", "v_lookup", "v_delete", "v_unlock"}

\* where a handler is between captchaStore.RLock() and captchaStore.RUnlock();
\* a handler at "i_rlock" that is among the readers is in an RLock call
\* that is about to return
ReadSection == {"i_read", "i_runlock"}

C18_Exclusion ==
    /\ \A h \in DOMAIN pc :
        /\ pc[h] \in WriteSection <=> writer = h
        /\ pc[h] \in ReadSection => h \in readers
        /\ h \in readers => pc[h] \in ReadSection \cup {"i_rlock"}
    /\ Cardinality({h \in DOMAIN pc : pc[h] \in WriteSection}) <= 1
    /\ writer # NoHandler => readers = {}
    /\ readers # {} => writer = NoHandler

C18_AccessUnderLock ==
    /\ data' # data =>
          \E h \in DOMAIN pc :
              /\ writer = h
              /\ Step(h, "c_insert", "c_unlock") \/ Step(h, "v_delete", "v_unlock")
    /\ \A h \in DOMAIN pc :
        /\ Step(h, "i_read", "i_runlock") => h \in readers /\ writer = NoHandler
        /\ Step(h, "v_lookup", "v_delete") => writer = h /\ writer' = h
        /\ Step(h, "v_delete", "v_unlock") =>
              /\ writer = h /\ writer' = h
              /\ exists[h] = MapHas(data, captchaID[h])
              /\ exists[h] => entry[h] = MapGet(data, captchaID[h])
        /\ (pc[h] \in {"v_delete", "v_unlock"} /\ pc'[h] = pc[h]) => data' = data

\* C18: every read of captchaStore.data is made by a handler that holds
\* the read lock or the write lock, every insert and delete by the handler
\* that holds the write lock; never do two handlers hold the write lock, or
\* one the write lock while another holds the read lock; and the lookup and
\* the delete of /validate are in one write-lock section: the lock is held
\* from the lookup to the delete and no other handler changes the map
\* between them.
C18_LockDiscipline ==
    /\ []C18_Exclusion
    /\ [][C18_AccessUnderLock]_vars

\* a /validate is between its lookup and its delete while the other
\* handler waits for the lock with the same token
C18_Witness ==
    \E h1, h2 \in DOMAIN pc :
        /\ pc[h1] = "v_delete" /\ writer = h1 /\ exists[h1]
        /\ pc[h2] \in {"v_lock", "i_rlock", "c_lock"}
        /\ captchaID[h2] = captchaID[h1]


(***************************************************************************)
(* SpecFair: the handlers under fair scheduling. A handler that has        *)
(* started goes on when it can (weak fairness of its steps); a handler     *)
(* that waits for the lock gets it when the lock is free again and again   *)
(* (strong fairness of the acquisitions: sync.RWMutex does not starve a    *)
(* waiter). Requests need not arrive, and an answered handler need not be  *)
(* taken again. Three handlers make a waiting writer meet two readers that *)
(* take turns, and a waiting reader two writers that take turns; they work *)
(* on one token, with one challenge and its right answer.                  *)
(***************************************************************************)
FairHandlers == 1..NumFairHandlers
FairTokens == { "u1" }
FairDraws == { <<0, 2, 3>> }
FairTexts == { <<"+", "7">> }

\* the steps of handler h that do not wait
Proceed(h) ==
    \/ C_Insert(h) \/ C_Unlock(h) \/ C_Respond(h)
    \/ I_Read(h) \/ I_RUnlock(h) \/ I_Respond(h)
    \/ V_Lookup(h) \/ V_Delete(h) \/ V_Unlock(h) \/ V_Respond(h)

\* the steps of handler h that wait for captchaStore's lock
Acquire(h) == C_Lock(h) \/ I_RLock(h) \/ V_Lock(h)

Fairness ==
    \A h \in FairHandlers : WF_vars(Proceed(h)) /\ SF_vars(Acquire(h))

F_CreateStart(h) == C_StartWith(h, FairDraws, FairTokens)
F_ImageStart(h) == I_StartWith(h, FairTokens)
F_ValidateStart(h) == V_StartWith(h, FairTokens, FairTexts)

InitFair == InitOf(FairHandlers)

NextFair ==
    \E h \in FairHandlers :
        \/ F_CreateStart(h) \/ F_ImageStart(h) \/ F_ValidateStart(h)
        \/ Proceed(h) \/ Acquire(h) \/ Return(h)

SpecFair == InitFair /\ [][NextFair]_vars /\ Fairness

\* handler h has started and not answered
Active(h) == pc[h] \notin {"idle", "done"}

C19_ReturnsUnlocked ==
    /\ \A h \in DOMAIN pc :
        ~Active(h) => writer # h /\ h \notin readers
    /\ \A h \in DOMAIN pc :
        pc[h] = "done" => response[h] # NoResponse
    /\ (\E h \in DOMAIN pc : Active(h)) =>
          \E h \in DOMAIN pc : Active(h) /\ ENABLED (Proceed(h) \/ Acquire(h))

\* C19: no handler returns holding the lock, and there is no deadlock:
\* while a request is being served some handler that serves one can take a
\* step, and under fair scheduling every create, image and /validate that
\* has started answers, holding no lock when it does.
C19_EveryRequestAnswered ==
    /\ []C19_ReturnsUnlocked
    /\ \A h \in FairHandlers : Active(h) ~> (pc[h] = "done")

\* a handler has answered and released the lock that the other handler
\* was waiting for and now holds
C19_Witness ==
    \E h1, h2 \in DOMAIN pc :
        /\ pc[h1] = "done" /\ IsValidate(h1) /\ exists[h1]
        /\ pc[h2] = "v_lookup" /\ writer = h2
        /\ captchaID[h2] = captchaID[h1]


=============================================================================
